---- MODULE Spec2Model ----
(***************************************************************************)
(* Workflow Launcher (src/group_tool/main.py): the application registry    *)
(* (self.config, persisted to apps_config.json), the launch path           *)
(* (launch_selected_app / run_app / run_cli) and the captured-process      *)
(* event handlers (handle_stdout / handle_stderr / handle_finished).       *)
(*                                                                         *)
(* Two specifications over the same variables and the same operators:      *)
(*   Spec          the registry and the launch path: construction,         *)
(*                 restart, add, remove, launch, filesystem changes.       *)
(*                 Launched processes stay silent.                         *)
(*   SpecSessions  the captured sessions: launches and the three QProcess  *)
(*                 signals, over a fixed registry and filesystem.          *)
(***************************************************************************)
EXTENDS Integers, Sequences, FiniteSets, TLC

\* ---------------------------------------------------------------- bounds
MaxNames == 1
MaxPaths == 1
MaxSessions == 2
MaxChunks == 2

Names == 1..MaxNames
Paths == 1..MaxPaths

\* ------------------------------------------------------- value encodings
\* A falsy path: dict.get("path") returning None, or the "" a cancelled
\* QFileDialog.getOpenFileName returns.
NoPath == 0

\* self.process = None
None == 0

\* Values of the "cli" and "file_input" keys of an entry: JSON true/false,
\* or "none" when the key is missing (dict.get returns None).
Flags == {"true", "false", "none"}

\* Python truthiness of a flag value as run_app tests it.
Truthy(v) == v = "true"

\* An entry of self.config.
AppInfo == [path : {NoPath} \cup Paths, cli : Flags, file_input : Flags]

\* The {} that self.config.get(key, {}) returns for an unknown key.
EmptyInfo == [path |-> NoPath, cli |-> "none", file_input |-> "none"]

\* The {} that load_config returns when there is no file.
EmptyConfig == [n \in {} |-> EmptyInfo]

\* ------------------------------------------------------------ variables
VARIABLES
    app,          \* "running" | "crashed" (uncaught exception / abort)
    fs,           \* the paths that exist on the filesystem
    disk,         \* apps_config.json
    config,       \* self.config
    app_list,     \* the item texts of self.app_list
    process,      \* self.process: None or the index of a QProcess
    qprocs,       \* the QProcess objects created by run_cli, in order
    events,       \* per QProcess, the slot invocations its signals caused
    output_area,  \* the paragraphs of self.output_area
    launch,       \* the process start attempted by the last operation
    lastOp        \* the last operation and its user inputs

vars == <<app, fs, disk, config, app_list, process, qprocs, events,
          output_area, launch, lastOp>>

\* ------------------------------------------------------ persisted config
NoFile == [kind |-> "nofile", entries |-> {}]
CorruptFile == [kind |-> "corrupt", entries |-> {}]

\* json.dump(self.config, f): one object member per key.
json_dump(c) ==
    [kind |-> "json",
     entries |-> {<<n, c[n].path, c[n].cli, c[n].file_input>> : n \in DOMAIN c}]

\* json.load(f) of a well-formed file.
json_load(d) ==
    [n \in {e[1] : e \in d.entries} |->
        LET e == CHOOSE x \in d.entries : x[1] = n
        IN  [path |-> e[2], cli |-> e[3], file_input |-> e[4]]]

\* load_config: {} without a file; json.load raises on a malformed file and
\* load_config does not catch it.
load_config(d) ==
    IF d.kind = "nofile" THEN [raised |-> FALSE, value |-> EmptyConfig]
    ELSE IF d.kind = "corrupt" THEN [raised |-> TRUE, value |-> EmptyConfig]
    ELSE [raised |-> FALSE, value |-> json_load(d)]

\* ------------------------------------------------------------ the object
\* The launcher's fields as one record, so that methods are operators from
\* self to self.
NoLaunch ==
    [mode |-> "none", key |-> 0, path |-> NoPath, args |-> <<>>,
     ok |-> FALSE, error |-> FALSE]

Self ==
    [config |-> config, disk |-> disk, app_list |-> app_list,
     process |-> process, qprocs |-> qprocs, events |-> events,
     output_area |-> output_area, launch |-> NoLaunch,
     exePrompt |-> "none", filePrompt |-> "none", raised |-> FALSE]

\* populate_app_list: one item per key of self.config.
populate_app_list(S) == [S EXCEPT !.app_list = DOMAIN S.config]

\* save_config: write the whole config, then refresh the list.
save_config(S) == populate_app_list([S EXCEPT !.disk = json_dump(S.config)])

\* self.config[key] = info
SetEntry(c, key, info) ==
    [n \in DOMAIN c \cup {key} |-> IF n = key THEN info ELSE c[n]]

\* del self.config[name]
DelEntry(c, name) == [n \in DOMAIN c \ {name} |-> c[n]]

\* self.config.get(key, {})
GetEntry(c, key) == IF key \in DOMAIN c THEN c[key] ELSE EmptyInfo

\* --------------------------------------------------------- launch path
\* get_app_info: when the stored path is missing or stale, prompt for a
\* replacement (pick = NoPath when the dialog is cancelled); a picked path
\* is stored and saved. The entry is returned either way.
get_app_info(S, key, pick) ==
    LET app_info == GetEntry(S.config, key)
        path == app_info.path
    IN  IF path = NoPath \/ path \notin fs
        THEN IF pick # NoPath
             THEN LET info2 == [app_info EXCEPT !.path = pick]
                      S2 == save_config(
                                [S EXCEPT !.config = SetEntry(S.config, key, info2)])
                  IN  [self |-> [S2 EXCEPT !.app_list = @ \cup {key},
                                           !.exePrompt = "picked"],
                       app_info |-> info2]
             ELSE [self |-> [S EXCEPT !.exePrompt = "cancelled"],
                   app_info |-> app_info]
        ELSE [self |-> S, app_info |-> app_info]

\* A fresh QProcess after start(path, args): running, or failed to start
\* (QProcess.start raises nothing and emits no finished signal then).
NewQProcess(started) ==
    [state |-> IF started THEN "Running" ELSE "FailedToStart",
     outN |-> 0, errN |-> 0, outbuf |-> <<>>, errbuf |-> <<>>]

\* A paragraph of the output view: which append wrote it and the process
\* data it carries (the literal text around the data is left out).
Paragraph(kind, data) == [kind |-> kind, data |-> data]

\* run_cli: clear the view, announce, create the QProcess, keep it in
\* self.process and start it. startOk is the operating system's answer for a
\* path that exists (not executable, permission denied, ...).
run_cli(S, key, path, args, startOk) ==
    LET started == startOk /\ path \in fs
    IN  [S EXCEPT !.output_area = <<Paragraph("running", <<>>)>>,
                  !.qprocs = Append(@, NewQProcess(started)),
                  !.events = Append(@, <<>>),
                  !.process = Len(S.qprocs) + 1,
                  !.launch = [mode |-> "captured", key |-> key, path |-> path,
                              args |-> args, ok |-> started, error |-> FALSE]]

\* subprocess.Popen([path] + args) inside try/except: a failure is shown in a
\* critical message box.
Popen(S, key, path, args, startOk) ==
    LET started == startOk /\ path \in fs
    IN  [S EXCEPT !.launch = [mode |-> "detached", key |-> key, path |-> path,
                              args |-> args, ok |-> started,
                              error |-> ~started]]

\* A run_app that goes on with no argument when the file prompt is
\* cancelled.
file_args_IgnoreCancel(app_info, file_path) ==
    IF Truthy(app_info.file_input)
    THEN IF file_path = NoPath
         THEN [proceed |-> TRUE, args |-> <<>>, prompt |-> "cancelled"]
         ELSE [proceed |-> TRUE, args |-> <<file_path>>, prompt |-> "picked"]
    ELSE [proceed |-> TRUE, args |-> <<>>, prompt |-> "none"]

\* run_app, the file argument: prompted for when file_input is truthy; a
\* cancelled prompt (file_path = NoPath) ends the launch.
file_args(app_info, file_path) ==
    IF Truthy(app_info.file_input)
    THEN IF file_path = NoPath
         THEN [proceed |-> FALSE, args |-> <<>>, prompt |-> "cancelled"]
         ELSE [proceed |-> TRUE, args |-> <<file_path>>, prompt |-> "picked"]
    ELSE [proceed |-> TRUE, args |-> <<>>, prompt |-> "none"]

\* A run_app that reads the flag as app_info.get("cli", True).
launch_mode_DefaultCli(app_info) ==
    IF app_info.cli # "false" THEN "captured" ELSE "detached"

\* run_app, the mode: captured when cli is truthy, detached otherwise.
launch_mode(app_info) ==
    IF Truthy(app_info.cli) THEN "captured" ELSE "detached"

\* run_app
run_app(S, key, pick, file_path, startOk) ==
    LET r == get_app_info(S, key, pick)
        path == r.app_info.path
        fa == file_args(r.app_info, file_path)
        S2 == [r.self EXCEPT !.filePrompt = fa.prompt]
    IN  IF path = NoPath THEN r.self
        ELSE IF ~fa.proceed THEN S2
        ELSE IF launch_mode(r.app_info) = "captured"
             THEN run_cli(S2, key, path, fa.args, startOk)
             ELSE Popen(S2, key, path, fa.args, startOk)

\* self.app_list.currentItem() is None
NoSelection == 0

\* ------------------------------------------------------ registry edits
\* The text typed in the name dialog: a name (0 for none) with or without
\* surrounding blanks.
Typed == [base : {0} \cup Names, padded : BOOLEAN]

\* name.strip()
strip(text) == text.base

\* add_application: every dialog may be cancelled; otherwise the entry is
\* stored under the stripped name and saved.
add_application(S, exe_path, text, ok, accepted, cli, file_input) ==
    IF exe_path = NoPath THEN S
    ELSE IF ~ok \/ strip(text) = 0 THEN S
    ELSE IF ~accepted THEN S
    ELSE save_config(
             [S EXCEPT !.config =
                 SetEntry(S.config, strip(text),
                          [path |-> exe_path,
                           cli |-> IF cli THEN "true" ELSE "false",
                           file_input |-> IF file_input THEN "true" ELSE "false"])])

\* A remove_app that forgets save_config.
remove_app_NoSave(S, name, confirm) ==
    IF confirm /\ name \in DOMAIN S.config
    THEN populate_app_list([S EXCEPT !.config = DelEntry(S.config, name)])
    ELSE S

\* remove_app: on Yes, delete the entry and save.
remove_app(S, name, confirm) ==
    IF confirm /\ name \in DOMAIN S.config
    THEN save_config([S EXCEPT !.config = DelEntry(S.config, name)])
    ELSE S

\* ------------------------------------------------- captured sessions
\* The k-th chunk process i writes to a stream.
Chunk(i, stream, k) == <<i, stream, k>>

\* handle_stdout: read everything buffered by self.process and append it.
\* With self.process None the attribute access raises.
handle_stdout(S) ==
    IF S.process = None THEN [S EXCEPT !.raised = TRUE]
    ELSE [S EXCEPT !.qprocs[S.process].outbuf = <<>>,
                   !.output_area =
                       Append(@, Paragraph("stdout", S.qprocs[S.process].outbuf))]

\* handle_stderr: the same for the error stream, prefixed "[ERROR] ".
handle_stderr(S) ==
    IF S.process = None THEN [S EXCEPT !.raised = TRUE]
    ELSE [S EXCEPT !.qprocs[S.process].errbuf = <<>>,
                   !.output_area =
                       Append(@, Paragraph("stderr", S.qprocs[S.process].errbuf))]

\* handle_finished: append the end marker and drop the handle.
handle_finished(S) ==
    [S EXCEPT !.output_area = Append(@, Paragraph("finished", <<>>)),
              !.process = None]

\* Connections with handle_finished also wired to the error stream's signal.
SlotMiswired(signal) ==
    CASE signal = "readyReadStandardOutput" -> "handle_stdout"
      [] signal = "readyReadStandardError" -> "handle_finished"
      [] signal = "finished" -> "handle_finished"

\* The connections run_cli makes on every QProcess it creates.
Slot(signal) ==
    CASE signal = "readyReadStandardOutput" -> "handle_stdout"
      [] signal = "readyReadStandardError" -> "handle_stderr"
      [] signal = "finished" -> "handle_finished"

Call(slot, S) ==
    CASE slot = "handle_stdout" -> handle_stdout(S)
      [] slot = "handle_stderr" -> handle_stderr(S)
      [] slot = "handle_finished" -> handle_finished(S)

\* What the slot reads: the buffer of self.process, whichever QProcess
\* emitted the signal.
ReadBy(slot, S) ==
    IF S.process = None THEN <<>>
    ELSE CASE slot = "handle_stdout" -> S.qprocs[S.process].outbuf
           [] slot = "handle_stderr" -> S.qprocs[S.process].errbuf
           [] slot = "handle_finished" -> <<>>

\* QProcess i emits a signal: the connected slot runs at once on the event
\* loop's thread. The invocation is recorded under the emitting process.
Emit(S, i, signal) ==
    LET slot == Slot(signal)
        S2 == Call(slot, S)
    IN  [S2 EXCEPT !.events[i] =
            Append(@, [slot |-> slot, src |-> S.process,
                       data |-> ReadBy(slot, S)])]

\* ------------------------------------------------------------- actions
Op(name, key, S) ==
    [op |-> name, key |-> key, exe |-> S.exePrompt, file |-> S.filePrompt]

Commit(S) ==
    /\ config' = S.config
    /\ disk' = S.disk
    /\ app_list' = S.app_list
    /\ process' = S.process
    /\ qprocs' = S.qprocs
    /\ events' = S.events
    /\ output_area' = S.output_area
    /\ launch' = S.launch

\* __init__: load the config, build the list, no process. An exception from
\* load_config leaves no window: the program ends with a traceback.
WorkflowLauncher_init(d) ==
    LET l == load_config(d)
    IN  [app |-> IF l.raised THEN "crashed" ELSE "running",
         self |-> [config |-> l.value, disk |-> d, app_list |-> DOMAIN l.value,
                   process |-> None, qprocs |-> <<>>, events |-> <<>>,
                   output_area |-> <<>>, launch |-> NoLaunch,
                   exePrompt |-> "none", filePrompt |-> "none",
                   raised |-> l.raised]]

\* launch_selected_app: warn without a selection, else run_app on the item.
launch_selected_app ==
    /\ app = "running"
    /\ \E sel \in app_list \cup {NoSelection},
          pick \in fs \cup {NoPath},
          file_path \in fs \cup {NoPath},
          startOk \in BOOLEAN :
          LET S2 == IF sel = NoSelection THEN Self
                    ELSE run_app(Self, sel, pick, file_path, startOk)
          IN  /\ Len(S2.qprocs) <= MaxSessions
              \* a dialog that is not shown gives no answer
              /\ S2.exePrompt = "none" => pick = NoPath
              /\ S2.filePrompt = "none" => file_path = NoPath
              /\ S2.launch.mode = "none" => startOk
              /\ Commit(S2)
              /\ lastOp' = Op("launch_selected_app", sel, S2)
    /\ UNCHANGED <<app, fs>>

\* The ways through add_application's three dialogs: the file dialog
\* cancelled, the name dialog cancelled or left blank, the settings dialog
\* rejected, or all three completed.
AddInputs ==
    LET In(e, t, o, a, c, f) ==
            [exe_path |-> e, text |-> t, ok |-> o, accepted |-> a,
             cli |-> c, file_input |-> f]
        blank == [base |-> 0, padded |-> TRUE]
    IN  {In(NoPath, blank, FALSE, FALSE, FALSE, FALSE)}
        \cup {In(e, blank, TRUE, FALSE, FALSE, FALSE) : e \in fs}
        \cup {In(e, [base |-> n, padded |-> FALSE], o, FALSE, FALSE, FALSE) :
                 e \in fs, n \in Names, o \in BOOLEAN}
        \cup {In(e, [base |-> n, padded |-> c], TRUE, TRUE, c, f) :
                 e \in fs, n \in Names, c \in BOOLEAN, f \in BOOLEAN}

AddApplication ==
    /\ app = "running"
    /\ \E in \in AddInputs :
          LET text == in.text
              S2 == add_application(Self, in.exe_path, text, in.ok,
                                    in.accepted, in.cli, in.file_input)
          IN  /\ Commit(S2)
              /\ lastOp' = IF in.accepted
                            THEN Op("add_application", strip(text), S2)
                            ELSE Op("add_cancelled", 0, S2)
    /\ UNCHANGED <<app, fs>>

\* show_context_menu on an item, "Remove Application" chosen.
show_context_menu ==
    /\ app = "running"
    /\ \E name \in app_list, confirm \in BOOLEAN :
          LET S2 == remove_app(Self, name, confirm)
          IN  /\ Commit(S2)
              /\ lastOp' = Op(IF confirm THEN "remove_app" ELSE "remove_app_no",
                              name, S2)
    /\ UNCHANGED <<app, fs>>

\* The window is closed and the program started again.
Restart ==
    /\ LET r == WorkflowLauncher_init(disk)
       IN  /\ app' = r.app
           /\ Commit(r.self)
           /\ lastOp' = Op("restart", 0, r.self)
    /\ UNCHANGED fs

\* The environment creates or deletes a file.
FsCreate ==
    /\ \E p \in Paths \ fs : fs' = fs \cup {p}
    /\ lastOp' = Op("fs_create", 0, Self)
    /\ launch' = NoLaunch
    /\ UNCHANGED <<app, disk, config, app_list, process, qprocs, events,
                   output_area>>

FsDelete ==
    /\ \E p \in fs : fs' = fs \ {p}
    /\ lastOp' = Op("fs_delete", 0, Self)
    /\ launch' = NoLaunch
    /\ UNCHANGED <<app, disk, config, app_list, process, qprocs, events,
                   output_area>>

\* A slot that raised: PyQt either aborts the program or prints the
\* traceback and goes on, depending on its version.
AfterSlot(S, abort) == IF S.raised /\ abort THEN "crashed" ELSE "running"

\* The chunks written so far by all captured processes.
RECURSIVE Written(_)
Written(qs) ==
    IF qs = <<>> THEN 0
    ELSE Head(qs).outN + Head(qs).errN + Written(Tail(qs))

\* Process i writes a chunk to its standard output; Qt buffers it and emits
\* readyReadStandardOutput.
readyReadStandardOutput ==
    /\ app = "running"
    /\ \E i \in 1..Len(qprocs), abort \in BOOLEAN :
          /\ qprocs[i].state = "Running"
          /\ Written(qprocs) < MaxChunks
          /\ LET S1 == [Self EXCEPT
                           !.qprocs[i].outN = @ + 1,
                           !.qprocs[i].outbuf =
                               Append(@, Chunk(i, "out", qprocs[i].outN + 1))]
                 S2 == Emit(S1, i, "readyReadStandardOutput")
             IN  /\ Commit(S2)
                 /\ app' = AfterSlot(S2, abort)
                 /\ lastOp' = Op("readyReadStandardOutput", i, S2)
    /\ UNCHANGED fs

readyReadStandardError ==
    /\ app = "running"
    /\ \E i \in 1..Len(qprocs), abort \in BOOLEAN :
          /\ qprocs[i].state = "Running"
          /\ Written(qprocs) < MaxChunks
          /\ LET S1 == [Self EXCEPT
                           !.qprocs[i].errN = @ + 1,
                           !.qprocs[i].errbuf =
                               Append(@, Chunk(i, "err", qprocs[i].errN + 1))]
                 S2 == Emit(S1, i, "readyReadStandardError")
             IN  /\ Commit(S2)
                 /\ app' = AfterSlot(S2, abort)
                 /\ lastOp' = Op("readyReadStandardError", i, S2)
    /\ UNCHANGED fs

\* Process i terminates; Qt emits finished.
finished ==
    /\ app = "running"
    /\ \E i \in 1..Len(qprocs), abort \in BOOLEAN :
          /\ qprocs[i].state = "Running"
          /\ LET S1 == [Self EXCEPT !.qprocs[i].state = "Exited"]
                 S2 == Emit(S1, i, "finished")
             IN  /\ Commit(S2)
                 /\ app' = AfterSlot(S2, abort)
                 /\ lastOp' = Op("finished", i, S2)
    /\ UNCHANGED fs

\* --------------------------------------------------------- specifications
\* Config files found at the first start: none, a malformed one, and
\* hand-written ones whose single entry may lack any of its keys.
HandWritten ==
    {[path |-> p, cli |-> f[1], file_input |-> f[2]] :
        p \in {NoPath, 1},
        f \in {<<"none", "none">>, <<"true", "none">>, <<"none", "true">>}}

InitialDisks ==
    {NoFile, CorruptFile} \cup {json_dump([n \in {1} |-> info]) : info \in HandWritten}

Constructed(d) ==
    LET r == WorkflowLauncher_init(d)
    IN  /\ app = r.app
        /\ disk = d
        /\ config = r.self.config
        /\ app_list = r.self.app_list
        /\ process = r.self.process
        /\ qprocs = r.self.qprocs
        /\ events = r.self.events
        /\ output_area = r.self.output_area
        /\ launch = r.self.launch
        /\ lastOp = Op("init", 0, r.self)

Init ==
    /\ fs \in SUBSET Paths
    /\ \E d \in InitialDisks : Constructed(d)

Next ==
    \/ launch_selected_app
    \/ AddApplication
    \/ show_context_menu
    \/ Restart
    \/ FsCreate
    \/ FsDelete

Spec == Init /\ [][Next]_vars

\* Sessions: every path exists, the registry holds captured entries with and
\* without a file argument, and the processes speak and terminate.
SessionDisks ==
    {json_dump([n \in {1} |-> [path |-> 1, cli |-> "true", file_input |-> f]]) :
        f \in {"true", "false"}}

InitSessions ==
    /\ fs = Paths
    /\ \E d \in SessionDisks : Constructed(d)

NextSessions ==
    \/ launch_selected_app
    \/ readyReadStandardOutput
    \/ readyReadStandardError
    \/ finished

SpecSessions == InitSessions /\ [][NextSessions]_vars

\* ------------------------------------------------------------- claims
Sessions == 1..Len(qprocs)

\* The positions of session i's exit events.
Exits(i) == {k \in 1..Len(events[i]) : events[i][k].slot = "handle_finished"}

IsOutputSlot(slot) == slot \in {"handle_stdout", "handle_stderr"}

\* C1: for every captured session the exit event is delivered at most once,
\* it is delivered exactly when the process has terminated, and no stdout or
\* stderr delivery of that session follows it.
C1_ExitOnceAndLast ==
    \A i \in Sessions :
        /\ Cardinality(Exits(i)) <= 1
        /\ \A k \in Exits(i) : k = Len(events[i])
        /\ (qprocs[i].state = "Exited") <=> (Exits(i) # {})

\* A session that delivered output and then its exit event while another
\* session is still running.
C1_Witness ==
    \E i, j \in Sessions :
        /\ i # j
        /\ qprocs[j].state = "Running"
        /\ Len(events[i]) >= 2
        /\ IsOutputSlot(events[i][1].slot)
        /\ events[i][Len(events[i])].slot = "handle_finished"

\* C2: at most one captured process is running at any time.
C2_AtMostOneActive ==
    Cardinality({i \in Sessions : qprocs[i].state = "Running"}) <= 1

\* C3: a launch never uses a path that does not exist, and a cancelled
\* replacement-path prompt ends the launch with no start attempted.
C3_ResolvedPathExists ==
    /\ launch.mode # "none" => launch.path \in fs
    /\ (lastOp.op = "launch_selected_app" /\ lastOp.exe = "cancelled")
           => launch = NoLaunch

\* C4: while the program runs, loading the persisted configuration yields
\* exactly the in-memory registry (a restart constructs the same registry).
C4_PersistedEqualsMemory ==
    app = "running" =>
        /\ ~load_config(disk).raised
        /\ load_config(disk).value = config
        /\ WorkflowLauncher_init(disk).self.config = config

\* A path repair has just stored and saved a replacement path.
C4_Witness ==
    /\ app = "running"
    /\ lastOp.op = "launch_selected_app"
    /\ lastOp.exe = "picked"
    /\ config # EmptyConfig

\* C5: a captured launch that cannot start signals an error, fires no event
\* and leaves no process handle behind.
C5_FailedStartSignalsError ==
    (launch.mode = "captured" /\ ~launch.ok) =>
        /\ launch.error
        /\ process = None
        /\ events[Len(events)] = <<>>

\* C6: a launch whose file prompt is cancelled starts nothing, leaves the
\* output view and the process handle alone, and changes the registry and the
\* file only as the path repair before the prompt did.
C6_FilePickCancelAborts ==
    [][(lastOp'.op = "launch_selected_app" /\ lastOp'.file = "cancelled") =>
          /\ launch' = NoLaunch
          /\ output_area' = output_area
          /\ process' = process
          /\ qprocs' = qprocs
          /\ \E pick \in fs \cup {NoPath} :
                LET r == get_app_info(Self, lastOp'.key, pick)
                IN  /\ r.self.exePrompt = lastOp'.exe
                    /\ config' = r.self.config
                    /\ disk' = r.self.disk]_vars

\* The file prompt was cancelled while the view showed an earlier launch.
C6_Witness ==
    /\ lastOp.op = "launch_selected_app"
    /\ lastOp.file = "cancelled"
    /\ output_area # <<>>

\* C7: with a malformed configuration file the program runs with an empty
\* registry.
C7_CorruptConfigFallsBack ==
    disk.kind = "corrupt" => (app = "running" /\ config = EmptyConfig)

\* C8: a start attempted by run_app passes the picked file as its only
\* argument when the entry's file_input is true and no argument otherwise,
\* and is captured exactly when the entry's cli is true.
C8_ArgsAndMode ==
    launch.mode # "none" =>
        LET info == GetEntry(config, launch.key)
        IN  /\ launch.key \in DOMAIN config
            /\ Len(launch.args) = (IF info.file_input = "true" THEN 1 ELSE 0)
            /\ \A k \in 1..Len(launch.args) : launch.args[k] \in fs
            /\ (launch.mode = "captured") <=> (info.cli = "true")

\* A started detached launch with a file argument of an entry that has no
\* cli key.
C8_Witness ==
    /\ launch.ok
    /\ launch.mode = "detached"
    /\ Len(launch.args) = 1
    /\ GetEntry(config, launch.key).cli = "none"

\* C9: handle_stdout and handle_stderr never run with self.process None.
C9_HandlersFindHandle ==
    \A i \in Sessions : \A k \in 1..Len(events[i]) :
        IsOutputSlot(events[i][k].slot) => events[i][k].src # None

\* C10: a handler reads the process whose signal triggered it, and a session
\* whose exit event was delivered has left no chunk unread.
C10_ChunksFromOwnProcess ==
    \A i \in Sessions :
        /\ \A k \in 1..Len(events[i]) :
              IsOutputSlot(events[i][k].slot) => events[i][k].src = i
        /\ Exits(i) # {} => (qprocs[i].outbuf = <<>> /\ qprocs[i].errbuf = <<>>)

====
